---- MODULE Spec2Model ----
(***************************************************************************)
(* Job-application server (src/Backend/server.js): the submit validator,   *)
(* the applications table and the upload directory, as a state machine.    *)
(*                                                                         *)
(* JavaScript values are tagged records [t, v]; a string is the sequence   *)
(* of its characters, so that emptiness, parseInt and comparison with a    *)
(* literal are computed and not assumed.  A serialized JSON text is the    *)
(* sequence of its tokens.                                                 *)
(***************************************************************************)
EXTENDS Integers, Sequences, FiniteSets, TLC

(* ------------------------------------------------------------------ *)
(* JavaScript values                                                   *)
(* ------------------------------------------------------------------ *)
Undef == [t |-> "undefined", v |-> <<>>]

Null == [t |-> "null", v |-> <<>>]

NaN == [t |-> "NaN", v |-> <<>>]

Str(s) == [t |-> "string", v |-> s]

\* a string that holds serialized JSON, as the sequence of its tokens
Text(toks) == [t |-> "text", v |-> toks]

Num(n) == [t |-> "number", v |-> n]

Arr(a) == [t |-> "array", v |-> a]

\* an object is the sequence of its <<key, value>> members, in insertion order
Obj(m) == [t |-> "object", v |-> m]

\* typeof x === 'string'
IsString(x) == x.t \in {"string", "text"}

IsNullish(x) == x.t \in {"undefined", "null"}

\* ToBoolean: undefined, null, NaN, 0 and "" are falsy, everything else truthy
Truthy(x) ==
    CASE x.t \in {"undefined", "null", "NaN"} -> FALSE
      [] x.t \in {"string", "text"} -> Len(x.v) > 0
      [] x.t = "number" -> x.v # 0
      [] OTHER -> TRUE

\* x !== ''
NotEmptyString(x) == ~(x.t = "string" /\ Len(x.v) = 0)

\* obj[key] for an own property: the last member with that key, else undefined
RECURSIVE MemberAt(_, _, _)
MemberAt(m, key, i) ==
    IF i = 0 THEN Undef
    ELSE IF m[i][1] = key THEN m[i][2] ELSE MemberAt(m, key, i - 1)

\* x.key on a non-nullish value (a string, number or array has none of the
\* four education keys)
Prop(x, key) == IF x.t = "object" THEN MemberAt(x.v, key, Len(x.v)) ELSE Undef

(* ------------------------------------------------------------------ *)
(* parseInt(value, 10)                                                 *)
(* ------------------------------------------------------------------ *)
Digits == {"0", "1", "2", "3", "4", "5", "6", "7", "8", "9"}

DigitVal(c) ==
    CASE c = "0" -> 0 [] c = "1" -> 1 [] c = "2" -> 2 [] c = "3" -> 3
      [] c = "4" -> 4 [] c = "5" -> 5 [] c = "6" -> 6 [] c = "7" -> 7
      [] c = "8" -> 8 [] c = "9" -> 9

RECURSIVE SkipSpace(_, _)
SkipSpace(s, i) == IF i <= Len(s) /\ s[i] = " " THEN SkipSpace(s, i + 1) ELSE i

Int4Max == 2147483647

\* an integer beyond the range of the store's INTEGER type; its magnitude
\* decides nothing further
Big == [t |-> "bignumber", v |-> <<>>]

RECURSIVE DigitRun(_, _, _)
\* the value of the longest run of digits of s from position i, acc so far;
\* -1 once it exceeds Int4Max
DigitRun(s, i, acc) ==
    IF i <= Len(s) /\ s[i] \in Digits
    THEN IF acc > (Int4Max - DigitVal(s[i])) \div 10 THEN 0 - 1
         ELSE DigitRun(s, i + 1, 10 * acc + DigitVal(s[i]))
    ELSE acc

ParseIntStr(s) ==
    LET i == SkipSpace(s, 1)
        neg == i <= Len(s) /\ s[i] = "-"
        j == IF i <= Len(s) /\ s[i] \in {"-", "+"} THEN i + 1 ELSE i
        run == DigitRun(s, j, 0)
    IN  IF j <= Len(s) /\ s[j] \in Digits
        THEN (IF run < 0 THEN Big ELSE Num(IF neg THEN 0 - run ELSE run))
        ELSE NaN

\* parseInt applies ToString first: a number reads back as itself, an object
\* as "[object Object]", null as "null"
ParseInt(x) ==
    CASE x.t = "string" -> ParseIntStr(x.v)
      [] x.t \in {"number", "bignumber"} -> x
      [] OTHER -> NaN

\* parseFloat, on strings without a fraction or exponent part (the alphabet
\* of the inputs has neither "." nor "e")
ParseFloat(x) == ParseInt(x)

(* ------------------------------------------------------------------ *)
(* JSON.parse and JSON.stringify over token sequences                  *)
(* ------------------------------------------------------------------ *)
\* a token is [k, v] with v a value: the character of a punctuation mark, the
\* name of a key, the value of a literal
P(c) == [k |-> "punct", v |-> Str(<<c>>)]

Lit(x) == [k |-> "literal", v |-> x]

Key(name) == [k |-> "key", v |-> Str(<<name>>)]

IsP(toks, i, c) == i <= Len(toks) /\ toks[i].k = "punct" /\ toks[i].v = Str(<<c>>)

Fail == [ok |-> FALSE, val |-> Undef, next |-> 0]

RECURSIVE ParseValue(_, _), ParseElements(_, _, _), ParseMembers(_, _, _)
\* value := literal | "[" elements "]" | "{" members "}"
ParseValue(toks, i) ==
    IF i > Len(toks) THEN Fail
    ELSE IF toks[i].k = "literal" THEN [ok |-> TRUE, val |-> toks[i].v, next |-> i + 1]
    ELSE IF IsP(toks, i, "[") THEN
        IF IsP(toks, i + 1, "]")
        THEN [ok |-> TRUE, val |-> Arr(<<>>), next |-> i + 2]
        ELSE ParseElements(toks, i + 1, <<>>)
    ELSE IF IsP(toks, i, "{") THEN
        IF IsP(toks, i + 1, "}")
        THEN [ok |-> TRUE, val |-> Obj(<<>>), next |-> i + 2]
        ELSE ParseMembers(toks, i + 1, <<>>)
    ELSE Fail

ParseElements(toks, i, acc) ==
    LET e == ParseValue(toks, i) IN
    IF ~e.ok THEN Fail
    ELSE IF IsP(toks, e.next, ",") THEN ParseElements(toks, e.next + 1, Append(acc, e.val))
    ELSE IF IsP(toks, e.next, "]")
         THEN [ok |-> TRUE, val |-> Arr(Append(acc, e.val)), next |-> e.next + 1]
    ELSE Fail

ParseMembers(toks, i, acc) ==
    IF ~(i + 1 <= Len(toks) /\ toks[i].k = "key" /\ IsP(toks, i + 1, ":")) THEN Fail
    ELSE LET e == ParseValue(toks, i + 2) IN
         IF ~e.ok THEN Fail
         ELSE IF IsP(toks, e.next, ",")
              THEN ParseMembers(toks, e.next + 1, Append(acc, <<toks[i].v.v[1], e.val>>))
         ELSE IF IsP(toks, e.next, "}")
              THEN [ok |-> TRUE, val |-> Obj(Append(acc, <<toks[i].v.v[1], e.val>>)),
                    next |-> e.next + 1]
         ELSE Fail

\* JSON.parse(text): [ok, val]; ok = FALSE is the SyntaxError
JsonParse(toks) ==
    LET r == ParseValue(toks, 1) IN
    IF r.ok /\ r.next = Len(toks) + 1 THEN [ok |-> TRUE, val |-> r.val]
    ELSE [ok |-> FALSE, val |-> Undef]

RECURSIVE JsonStringify(_), StringifyElements(_, _), StringifyMembers(_, _, _)
JsonStringify(x) ==
    CASE x.t = "array" -> <<P("[")>> \o StringifyElements(x.v, 1) \o <<P("]")>>
      [] x.t = "object" -> <<P("{")>> \o StringifyMembers(x.v, 1, TRUE) \o <<P("}")>>
      [] x.t \in {"undefined", "NaN"} -> <<Lit(Null)>>
      [] OTHER -> <<Lit(x)>>

StringifyElements(a, i) ==
    IF i > Len(a) THEN <<>>
    ELSE (IF i > 1 THEN <<P(",")>> ELSE <<>>) \o JsonStringify(a[i])
         \o StringifyElements(a, i + 1)

\* a member whose value is undefined is left out
StringifyMembers(m, i, first) ==
    IF i > Len(m) THEN <<>>
    ELSE IF m[i][2].t = "undefined" THEN StringifyMembers(m, i + 1, first)
    ELSE (IF first THEN <<>> ELSE <<P(",")>>) \o <<Key(m[i][1]), P(":")>>
         \o JsonStringify(m[i][2]) \o StringifyMembers(m, i + 1, FALSE)

(* ------------------------------------------------------------------ *)
(* String literals of the program                                      *)
(* ------------------------------------------------------------------ *)
Experienced == <<"E", "x", "p", "e", "r", "i", "e", "n", "c", "e", "d">>

Pending == <<"P", "e", "n", "d", "i", "n", "g">>

Approved == <<"A", "p", "p", "r", "o", "v", "e", "d">>

Rejected == <<"R", "e", "j", "e", "c", "t", "e", "d">>

UnderReview == <<"U", "n", "d", "e", "r", " ", "R", "e", "v", "i", "e", "w">>

AllowedStatuses == {Str(Pending), Str(Approved), Str(Rejected), Str(UnderReview)}

(* ------------------------------------------------------------------ *)
(* The submit request and its fields                                   *)
(* ------------------------------------------------------------------ *)
RequiredFields ==
    << "full_name", "email", "mobile", "dob", "parent_name", "gender", "nationality",
       "current_address", "permanent_address", "state", "city", "zipcode",
       "emergency_contact", "ssc_board", "ssc_year", "ssc_percentage", "job_role",
       "preferred_location", "notice_period", "skills", "experience_status" >>

RequiredSet == {RequiredFields[i] : i \in 1..Len(RequiredFields)}

IntermediateFields == <<"intermediate_board", "intermediate_year", "intermediate_percentage">>

GraduationFields ==
    <<"college_name", "qualification", "branch", "graduation_year", "graduation_percentage">>

ExperienceFields ==
    <<"years_experience", "company_name", "designation", "work_location",
      "start_date", "end_date">>

EducationKeys == <<"institution", "qualification", "year", "percentage">>

SeqSet(s) == {s[i] : i \in 1..Len(s)}

\* the names read from req.body, and "status", which a client may send and the
\* handler never reads
BodyFields ==
    RequiredSet \cup SeqSet(IntermediateFields) \cup SeqSet(GraduationFields)
    \cup SeqSet(ExperienceFields)
    \cup {"marital_status", "additional_education", "expected_salary", "last_salary",
          "alt_mobile", "linkedin", "github", "certifications", "reference_name",
          "reference_email", "status"}

(* ------------------------------------------------------------------ *)
(* The handler's checks, in the handler's order                        *)
(* ------------------------------------------------------------------ *)
\* IsMissing with the empty string counted as missing
IsMissingStrict(x) == ~Truthy(x)

\* requiredFields.filter(field => !req.body[field] && req.body[field] !== '')
IsMissing(x) == ~Truthy(x) /\ NotEmptyString(x)

\* MissingFields that reports the first missing field only
MissingFieldsFirst(body) ==
    LET all == SelectSeq(RequiredFields, LAMBDA f : IsMissing(body[f]))
    IN  IF all = <<>> THEN <<>> ELSE <<Head(all)>>

MissingFields(body) == SelectSeq(RequiredFields, LAMBDA f : IsMissing(body[f]))

\* sanitizeInteger: [ok, val, error]; ok = FALSE is the thrown Error
SanitizeEmptyError(fieldName) ==
    CASE fieldName = "ssc_year" ->
            "Invalid ssc_year: empty value not allowed for non-nullable field"
      [] fieldName = "intermediate_year" ->
            "Invalid intermediate_year: empty value not allowed for non-nullable field"
      [] fieldName = "graduation_year" ->
            "Invalid graduation_year: empty value not allowed for non-nullable field"
      [] fieldName = "years_experience" ->
            "Invalid years_experience: empty value not allowed for non-nullable field"

\* `Invalid ${fieldName}: "${value}" is not a valid integer`, the quoted value left out
SanitizeNaNError(fieldName) ==
    CASE fieldName = "ssc_year" -> "Invalid ssc_year: not a valid integer"
      [] fieldName = "intermediate_year" -> "Invalid intermediate_year: not a valid integer"
      [] fieldName = "graduation_year" -> "Invalid graduation_year: not a valid integer"
      [] fieldName = "years_experience" -> "Invalid years_experience: not a valid integer"

sanitizeInteger(value, fieldName, isNullable) ==
    IF value = Str(<<>>) \/ IsNullish(value)
    THEN IF isNullable THEN [ok |-> TRUE, val |-> Null, error |-> ""]
         ELSE [ok |-> FALSE, val |-> Null, error |-> SanitizeEmptyError(fieldName)]
    ELSE LET parsed == ParseInt(value) IN
         IF parsed = NaN
         THEN [ok |-> FALSE, val |-> Null, error |-> SanitizeNaNError(fieldName)]
         ELSE [ok |-> TRUE, val |-> parsed, error |-> ""]

\* validateEducationSection that takes an empty string for a value
validateEducationSectionSent(body, fields) ==
    LET filled(f) == Truthy(body[f]) /\ NotEmptyString(body[f])
        hasValue == \E i \in 1..Len(fields) : filled(fields[i])
    IN  IF hasValue THEN \A i \in 1..Len(fields) : body[fields[i]] # Undef ELSE TRUE

\* fields.some(...) ? fields.every(...) : true
validateEducationSection(body, fields) ==
    LET filled(f) == Truthy(body[f]) /\ NotEmptyString(body[f])
        hasValue == \E i \in 1..Len(fields) : filled(fields[i])
    IN  IF hasValue THEN \A i \in 1..Len(fields) : filled(fields[i]) ELSE TRUE

\* experienceValid that looks at years_experience only
experienceValidYears(body) ==
    body["experience_status"] # Str(Experienced) \/ Truthy(body["years_experience"])

\* experience_status !== 'Experienced' || (years_experience && ... && end_date),
\* as the condition of the if
experienceValid(body) ==
    body["experience_status"] # Str(Experienced)
    \/ \A i \in 1..Len(ExperienceFields) : Truthy(body[ExperienceFields[i]])

\* the decoding of additional_education: [ok, val]; ok = FALSE is the 400.
\* A string of plain characters (no bracket is in the inputs' alphabet) parses
\* to no array: JSON.parse throws or yields a number.
DecodeAdditionalEducation(x) ==
    IF ~Truthy(x) THEN [ok |-> TRUE, val |-> Arr(<<>>)]
    ELSE LET d == IF IsString(x)
                  THEN (IF x.t = "text" THEN JsonParse(x.v) ELSE [ok |-> FALSE, val |-> Undef])
                  ELSE [ok |-> TRUE, val |-> x]
         IN  IF d.ok /\ d.val.t = "array" THEN d ELSE [ok |-> FALSE, val |-> Arr(<<>>)]

\* EntryIncomplete that looks at the institution only
EntryIncompleteInstitution(edu) == ~Truthy(Prop(edu, "institution"))

EntryIncomplete(edu) == \E i \in 1..Len(EducationKeys) : ~Truthy(Prop(edu, EducationKeys[i]))

RECURSIVE ScanEducation(_, _)
\* the for loop over the entries: "ok", or how the first offending entry ends
\* the request: reading a property of null or undefined throws a TypeError
ScanEducation(a, i) ==
    IF i > Len(a) THEN "ok"
    ELSE IF IsNullish(a[i]) THEN "TypeError"
    ELSE IF EntryIncomplete(a[i]) THEN "incomplete"
    ELSE ScanEducation(a, i + 1)

(* ------------------------------------------------------------------ *)
(* The applications table                                              *)
(* ------------------------------------------------------------------ *)
\* the columns of the INSERT (id is the key of the row)
Columns ==
    (BodyFields \ {"status"})
    \cup {"resume_path", "cover_letter_path", "submission_date", "status"}

IntegerColumns == {"ssc_year", "intermediate_year", "graduation_year", "years_experience"}

NumericColumns == {"expected_salary", "last_salary"}

\* NOT NULL in CREATE TABLE
NotNullColumns == RequiredSet \cup {"resume_path", "submission_date"}

\* VARCHAR(n) columns and their n; 0 for the columns without a length
VarcharLen(c) ==
    CASE c \in {"full_name", "email", "parent_name", "emergency_contact", "ssc_board",
                "intermediate_board", "college_name", "qualification", "branch",
                "job_role", "preferred_location", "company_name", "designation",
                "work_location", "linkedin", "github", "reference_name",
                "reference_email", "resume_path", "cover_letter_path"} -> 255
      [] c \in {"nationality", "state", "city", "notice_period"} -> 100
      [] c \in {"gender", "marital_status", "experience_status", "status"} -> 50
      [] c \in {"mobile", "zipcode", "start_date", "end_date", "alt_mobile"} -> 20
      [] c \in {"ssc_percentage", "intermediate_percentage", "graduation_percentage"} -> 10
      [] OTHER -> 0

\* a DATE literal: YYYY-MM-DD with a month 01..12 and a day 01..31 (the ISO
\* form; the other forms the store reads are not among the inputs)
IsDate(x) ==
    /\ x.t = "string"
    /\ Len(x.v) = 10
    /\ \A i \in {1, 2, 3, 4, 6, 7, 9, 10} : x.v[i] \in Digits
    /\ x.v[5] = "-" /\ x.v[8] = "-"
    /\ 10 * DigitVal(x.v[6]) + DigitVal(x.v[7]) \in 1..12
    /\ 10 * DigitVal(x.v[9]) + DigitVal(x.v[10]) \in 1..31

\* a query parameter as the driver sends it: undefined goes as NULL
PgParam(x) == IF x.t = "undefined" THEN Null ELSE x

\* the value a column holds for a parameter: a JSONB column holds the parsed
\* document of the text it was given
PgStored(c, x) ==
    IF c = "additional_education" /\ x.t = "text" THEN JsonParse(x.v).val ELSE PgParam(x)

\* the error of binding the parameters to the column types, "" if none
BindError(values) ==
    IF PgParam(values["dob"]) # Null /\ ~IsDate(values["dob"])
    THEN "invalid input syntax for type date"
    ELSE IF \E c \in IntegerColumns : values[c] = Big
    THEN "value out of range for type integer"
    ELSE IF values["additional_education"].t = "text"
            /\ ~JsonParse(values["additional_education"].v).ok
    THEN "invalid input syntax for type json"
    ELSE ""

\* ConstraintError without the UNIQUE constraint on email
ConstraintErrorNoUnique(values, table) ==
    IF \E c \in Columns : VarcharLen(c) > 0 /\ values[c].t = "string"
                          /\ Len(values[c].v) > VarcharLen(c)
    THEN "value too long for type character varying"
    ELSE IF \E c \in NotNullColumns : PgParam(values[c]) = Null
    THEN "null value violates not-null constraint"
    ELSE ""

\* the error of executing the INSERT on the table, "" if none
ConstraintError(values, table) ==
    IF \E c \in Columns : VarcharLen(c) > 0 /\ values[c].t = "string"
                          /\ Len(values[c].v) > VarcharLen(c)
    THEN "value too long for type character varying"
    ELSE IF \E c \in NotNullColumns : PgParam(values[c]) = Null
    THEN "null value violates not-null constraint"
    ELSE IF \E i \in DOMAIN table : table[i]["email"] = values["email"]
    THEN "duplicate key value violates unique constraint"
    ELSE ""

(* ------------------------------------------------------------------ *)
(* Uploaded files                                                      *)
(* ------------------------------------------------------------------ *)
RECURSIVE Decimal(_)
Decimal(n) ==
    IF n < 10 THEN <<CHOOSE c \in Digits : DigitVal(c) = n>>
    ELSE Append(Decimal(n \div 10), CHOOSE c \in Digits : DigitVal(c) = n % 10)

\* `${file.fieldname}-${uniqueSuffix}${ext}`: the suffix is unique per upload
FileName(fieldname, suffix) == <<fieldname, "-">> \o Decimal(suffix)

(* ------------------------------------------------------------------ *)
(* Responses                                                           *)
(* ------------------------------------------------------------------ *)
\* res.status(code).json({success: false, error})
ErrorResponse(code, error) ==
    [code |-> code, error |-> error, hasMissing |-> FALSE, missing |-> <<>>,
     id |-> 0, application |-> <<>>,
     applications |-> <<>>]

\* res.status(400).json({success: false, error, missing})
MissingResponse(missing) ==
    [code |-> 400, error |-> "Missing required fields", hasMissing |-> TRUE,
     missing |-> missing, id |-> 0, application |-> <<>>,
     applications |-> <<>>]

\* res.json({success: true, id})
IdResponse(id) ==
    [code |-> 200, error |-> "", hasMissing |-> FALSE, missing |-> <<>>,
     id |-> id, application |-> <<>>,
     applications |-> <<>>]

\* res.json({success: true}) and res.json({success: true, application})
OkResponse(application) ==
    [code |-> 200, error |-> "", hasMissing |-> FALSE, missing |-> <<>>,
     id |-> 0, application |-> application,
     applications |-> <<>>]

\* res.json({success: true, applications})
ListResponse(applications) ==
    [code |-> 200, error |-> "", hasMissing |-> FALSE, missing |-> <<>>,
     id |-> 0, application |-> <<>>, applications |-> applications]

NoResponse == ErrorResponse(0, "")

(* ------------------------------------------------------------------ *)
(* POST /api/submit, up to the INSERT                                  *)
(* ------------------------------------------------------------------ *)
\* InsertValues that takes the status of the body when it has one
InsertValuesBodyStatus(body, sscYear, intermediateYear, graduationYear, yearsExperience, additionalEducation, resumePath, coverLetterPath, now) ==
    [c \in Columns |->
        CASE c = "ssc_year" -> sscYear
          [] c = "intermediate_year" -> intermediateYear
          [] c = "graduation_year" -> graduationYear
          [] c = "years_experience" -> yearsExperience
          [] c = "additional_education" -> Text(JsonStringify(additionalEducation))
          [] c \in NumericColumns -> IF Truthy(body[c]) THEN ParseFloat(body[c]) ELSE Null
          [] c = "resume_path" -> resumePath
          [] c = "cover_letter_path" -> coverLetterPath
          [] c = "submission_date" -> Num(now)
          [] c = "status" -> IF Truthy(body["status"]) THEN body["status"] ELSE Str(Pending)
          [] OTHER -> body[c]]

\* the values array of the INSERT
InsertValues(body, sscYear, intermediateYear, graduationYear, yearsExperience, additionalEducation, resumePath, coverLetterPath, now) ==
    [c \in Columns |->
        CASE c = "ssc_year" -> sscYear
          [] c = "intermediate_year" -> intermediateYear
          [] c = "graduation_year" -> graduationYear
          [] c = "years_experience" -> yearsExperience
          [] c = "additional_education" -> Text(JsonStringify(additionalEducation))
          [] c \in NumericColumns -> IF Truthy(body[c]) THEN ParseFloat(body[c]) ELSE Null
          [] c = "resume_path" -> resumePath
          [] c = "cover_letter_path" -> coverLetterPath
          [] c = "submission_date" -> Num(now)
          [] c = "status" -> Str(Pending)
          [] OTHER -> body[c]]

\* The handler from its first line to the await of the INSERT, on a request r
\* = [multipart, body, resume, cover] whose files multer stored with suffix
\* `now`: [insert, res, values].  insert = TRUE: the INSERT of `values` is
\* issued; insert = FALSE: the handler answered `res`.
SubmitHandler(r, now) ==
    LET body == r.body
        missingFields == MissingFields(body)
        sanitizedSscYear == sanitizeInteger(body["ssc_year"], "ssc_year", FALSE)
        sanitizedIntermediateYear ==
            sanitizeInteger(body["intermediate_year"], "intermediate_year", TRUE)
        sanitizedGraduationYear ==
            sanitizeInteger(body["graduation_year"], "graduation_year", TRUE)
        sanitizedYearsExperience ==
            sanitizeInteger(body["years_experience"], "years_experience", TRUE)
        intermediateValid == validateEducationSection(body, IntermediateFields)
        graduationValid == validateEducationSection(body, GraduationFields)
        decoded == DecodeAdditionalEducation(body["additional_education"])
        scan == ScanEducation(decoded.val.v, 1)
        resumePath == IF r.resume THEN Str(FileName("resume", now)) ELSE Null
        coverLetterPath == IF r.cover THEN Str(FileName("cover_letter", now)) ELSE Null
        answer(res) == [insert |-> FALSE, res |-> res, values |-> <<>>]
    IN  IF Len(missingFields) > 0 THEN answer(MissingResponse(missingFields))
        ELSE IF ~sanitizedSscYear.ok THEN answer(ErrorResponse(500, sanitizedSscYear.error))
        ELSE IF ~sanitizedIntermediateYear.ok
             THEN answer(ErrorResponse(500, sanitizedIntermediateYear.error))
        ELSE IF ~sanitizedGraduationYear.ok
             THEN answer(ErrorResponse(500, sanitizedGraduationYear.error))
        ELSE IF ~sanitizedYearsExperience.ok
             THEN answer(ErrorResponse(500, sanitizedYearsExperience.error))
        ELSE IF ~intermediateValid \/ ~graduationValid \/ ~experienceValid(body)
             THEN answer(ErrorResponse(400, "Incomplete optional section data"))
        ELSE IF ~decoded.ok
             THEN answer(ErrorResponse(400, "Invalid additional_education format"))
        ELSE IF scan = "TypeError"
             THEN answer(ErrorResponse(500, "Cannot read properties of null"))
        ELSE IF scan = "incomplete"
             THEN answer(ErrorResponse(400, "Incomplete additional education data"))
        ELSE IF ~r.multipart
             THEN answer(ErrorResponse(500, "Cannot read properties of undefined"))
        ELSE IF ~Truthy(resumePath) THEN answer(ErrorResponse(400, "Resume is required"))
        ELSE [insert |-> TRUE, res |-> NoResponse,
              values |-> InsertValues(body, sanitizedSscYear.val,
                                      sanitizedIntermediateYear.val,
                                      sanitizedGraduationYear.val,
                                      sanitizedYearsExperience.val, decoded.val,
                                      resumePath, coverLetterPath, now)]

(* ------------------------------------------------------------------ *)
(* The requests clients send                                           *)
(* ------------------------------------------------------------------ *)
Empty == Str(<<>>)

Word == Str(<<"x">>)

Email1 == Str(<<"a", "@", "m">>)

Email2 == Str(<<"b", "@", "m">>)

Fresher == Str(<<"F", "r", "e", "s", "h", "e", "r">>)

Archived == Str(<<"A", "r", "c", "h", "i", "v", "e", "d">>)

Year == Str(<<"2", "0", "1", "5">>)

Birthday == Str(<<"2", "0", "0", "0", "-", "0", "1", "-", "1", "5">>)

ElevenDigits == Str(<<"9", "9", "9", "9", "9", "9", "9", "9", "9", "9", "9">>)

\* a body with every required field filled and nothing else
BaseBody(email) ==
    [f \in BodyFields |->
        CASE f = "email" -> email
          [] f = "dob" -> Birthday
          [] f = "ssc_year" -> Year
          [] f = "experience_status" -> Fresher
          [] f \in RequiredSet \ {"email", "dob", "ssc_year", "experience_status"} -> Word
          [] OTHER -> Undef]

\* body with the fields of `patch` replaced
With(body, patch) == [f \in BodyFields |-> IF f \in DOMAIN patch THEN patch[f] ELSE body[f]]

\* the same value in every field of the sequence `fields`
All(fields, x) == [f \in SeqSet(fields) |-> x]

\* a multipart request: multer sets req.files, to {} when no file is sent
Multipart(body, resume, cover) ==
    [multipart |-> TRUE, body |-> body, resume |-> resume, cover |-> cover]

\* a JSON or urlencoded request: multer passes it on and req.files stays undefined
Plain(body) == [multipart |-> FALSE, body |-> body, resume |-> FALSE, cover |-> FALSE]

Entry(institution, qualification, year, percentage) ==
    Obj(<< <<"institution", institution>>, <<"qualification", qualification>>,
           <<"year", year>>, <<"percentage", percentage>> >>)

FullEntry == Entry(Word, Word, Year, Word)

\* additional_education values that decode to a sequence of complete entries
GoodEducation ==
    { Arr(<<>>), Arr(<<FullEntry>>), Arr(<<FullEntry, Entry(Word, Word, Num(2020), Word)>>),
      Text(JsonStringify(Arr(<<FullEntry>>))), Text(JsonStringify(Arr(<<>>))), Empty }

\* ... and values with an entry that lacks a sub-field, or is no object
IncompleteEducation ==
    LET arrays ==
          { Arr(<<Obj(<< <<"institution", Word>>, <<"qualification", Word>>,
                         <<"year", Year>> >>)>>),
            Arr(<<Entry(Word, Word, Empty, Word)>>),
            Arr(<<Entry(Empty, Word, Year, Word)>>),
            Arr(<<Entry(Word, Null, Year, Word)>>),
            Arr(<<Entry(Word, Word, Num(0), Word)>>),
            Arr(<<FullEntry, Entry(Word, Word, Year, Empty)>>),
            Arr(<<Entry(Word, Empty, Year, Word), Null>>),
            Arr(<<Word>>), Arr(<<Num(7)>>), Arr(<<Arr(<<>>)>>),
            Arr(<<Null>>), Arr(<<FullEntry, Null>>) }
    IN  arrays \cup {Text(JsonStringify(a)) : a \in arrays}

\* ... and values that are no sequence or do not parse
MalformedEducation ==
    { Word, FullEntry, Num(5),
      Text(<<P("["), P("{"), Key("institution"), P(":"), Lit(Word)>>),
      Text(<<P("["), Lit(Word), P(",")>>),
      Text(<<P("{"), P("}")>>), Text(JsonStringify(FullEntry)),
      Text(<<Lit(Num(5))>>), Text(<<Lit(Null)>>), Text(<<P("]")>>) }

Patterns(fields, vals) == [SeqSet(fields) -> vals]

\* Bodies for the validator: the base body with
\*  - up to two required fields absent and up to one more empty,
\*  - each pattern of absent / empty / filled over one optional group,
\*  - the integer fields and the date in their edge forms,
\*  - each additional_education value,
\* and the file combinations of a multipart request.
AtMostOne(S) == {{}} \cup {{f} : f \in S}

AtMostTwo(S) == AtMostOne(S) \cup {{f, g} : f \in S, g \in S}

\* the base body with at most one required field absent or empty
AtMostOneCases ==
    { With(BaseBody(Email1), [f \in a |-> x]) :
        a \in AtMostOne(RequiredSet), x \in {Undef, Empty} }

RequiredCases ==
    { With(BaseBody(Email1), [f \in x[1] \cup x[2] |-> IF f \in x[1] THEN Undef ELSE Empty]) :
        x \in { y \in AtMostTwo(RequiredSet) \X AtMostOne(RequiredSet) :
                   /\ Cardinality(y[1]) + Cardinality(y[2]) <= 3
                   /\ y[1] \cap y[2] = {} } }

\* a required field null or 0, as a JSON body can carry it, beside one absent
NullCases ==
    { With(BaseBody(Email1), [f \in a \cup {g} |-> IF f = g THEN x ELSE Undef]) :
        a \in AtMostOne(RequiredSet), g \in {"full_name", "ssc_year", "skills"},
        x \in {Null, Num(0)} }

IntermediateCases ==
    { With(BaseBody(Email1), p) : p \in Patterns(IntermediateFields, {Undef, Empty, Year}) }

GraduationCases ==
    { With(BaseBody(Email1), p) : p \in Patterns(GraduationFields, {Undef, Empty, Year}) }

ExperienceCases ==
    { With(BaseBody(Email1), p @@ ("experience_status" :> Str(Experienced))) :
        p \in Patterns(ExperienceFields, {Undef, Empty, Year}) }
    \cup { With(BaseBody(Email1), p) : p \in Patterns(ExperienceFields, {Undef, Year}) }

EdgeCases ==
    { With(BaseBody(Email1), ("ssc_year" :> x)) :
        x \in { Str(<<"a", "b">>), Str(<<"1", "2", "a">>), Str(<<" ", "7">>), Str(<<" ">>),
                Str(<<"-", "5">>), Str(<<"0">>), ElevenDigits } }
    \cup { With(BaseBody(Email1), ("intermediate_year" :> x) @@ All(IntermediateFields, Year)) :
             x \in {Str(<<"a", "b">>), Str(<<" ">>), Str(<<"0">>)} }
    \cup { With(BaseBody(Email1), ("graduation_year" :> x) @@ All(GraduationFields, Year)) :
             x \in {Str(<<"a", "b">>), ElevenDigits} }
    \cup { With(BaseBody(Email1),
                ("years_experience" :> x) @@ All(ExperienceFields, Year)
                @@ ("experience_status" :> Str(Experienced))) :
             x \in {Str(<<"0">>), Str(<<"a">>), Num(0), Num(3)} }
    \cup { With(BaseBody(Email1), ("dob" :> x)) :
             x \in { Str(<<"a", "b">>),
                     Str(<<"2", "0", "0", "0", "-", "1", "3", "-", "0", "1">>) } }
    \cup { With(BaseBody(Email1), ("ssc_percentage" :> ElevenDigits)),
           With(BaseBody(Email1), ("expected_salary" :> Year) @@ ("last_salary" :> Word)),
           With(BaseBody(Email1), ("status" :> Str(Approved))),
           With(BaseBody(Email1), ("status" :> Archived)) }

EducationCases ==
    { With(BaseBody(Email1), ("additional_education" :> x)) :
        x \in GoodEducation \cup IncompleteEducation \cup MalformedEducation }

\* every body once as a multipart request with a resume, and some of them
\* without a resume, with a cover letter, or not as multipart
ValidatorInputs ==
    { Multipart(b, TRUE, FALSE) :
        b \in RequiredCases \cup IntermediateCases \cup GraduationCases
              \cup ExperienceCases \cup EdgeCases \cup EducationCases }
    \cup { Multipart(b, res, cov) :
             b \in AtMostOneCases \cup EdgeCases \cup EducationCases,
             res \in BOOLEAN, cov \in BOOLEAN }
    \cup { Plain(b) : b \in AtMostOneCases \cup NullCases \cup EdgeCases \cup EducationCases }

\* The requests of the server runs: two applications of one applicant, one
\* of them with every optional section filled, and one of another applicant,
\* with a cover letter and a status field.
FullBody(email) ==
    With(BaseBody(email),
         All(IntermediateFields, Year) @@ All(GraduationFields, Year)
         @@ All(ExperienceFields, Year)
         @@ ("experience_status" :> Str(Experienced))
         @@ ("additional_education" :> Text(JsonStringify(Arr(<<FullEntry>>)))))

ServerInputs ==
    { Multipart(BaseBody(Email1), TRUE, FALSE),
      Multipart(FullBody(Email1), TRUE, FALSE),
      Multipart(With(BaseBody(Email2), ("status" :> Str(Approved))), TRUE, TRUE) }

\* the status values and the ids of the requests
StatusInputs == AllowedStatuses \cup {Archived, Undef}

(* ------------------------------------------------------------------ *)
(* syncApplicationsTable                                               *)
(* ------------------------------------------------------------------ *)
\* the names of expectedColumns, in their order
expectedColumns ==
    <<"id", "full_name", "email", "mobile", "dob", "parent_name", "gender",
      "nationality", "marital_status", "current_address", "permanent_address", "state",
      "city", "zipcode", "emergency_contact", "ssc_board", "ssc_year",
      "ssc_percentage", "intermediate_board", "intermediate_year",
      "intermediate_percentage", "college_name", "qualification", "branch",
      "graduation_year", "graduation_percentage", "additional_education", "job_role",
      "preferred_location", "notice_period", "expected_salary", "skills",
      "experience_status", "years_experience", "company_name", "designation",
      "work_location", "start_date", "end_date", "last_salary", "alt_mobile",
      "linkedin", "github", "certifications", "reference_name", "reference_email",
      "resume_path", "cover_letter_path", "submission_date", "status">>

\* the columns with nullable: false
SyncNotNull ==
    {"full_name", "email", "mobile", "dob", "parent_name", "gender", "nationality",
     "current_address", "permanent_address", "state", "city", "zipcode",
     "emergency_contact", "ssc_board", "ssc_year", "ssc_percentage", "job_role",
     "preferred_location", "notice_period", "skills", "experience_status",
     "resume_path", "submission_date"}

\* the columns whose type includes VARCHAR, TEXT or JSONB
SyncTextual ==
    {"full_name", "email", "mobile", "parent_name", "gender", "nationality",
     "marital_status", "current_address", "permanent_address", "state", "city",
     "zipcode", "emergency_contact", "ssc_board", "ssc_percentage",
     "intermediate_board", "intermediate_percentage", "college_name", "qualification",
     "branch", "graduation_percentage", "additional_education", "job_role",
     "preferred_location", "notice_period", "skills", "experience_status",
     "company_name", "designation", "work_location", "start_date", "end_date",
     "alt_mobile", "linkedin", "github", "certifications", "reference_name",
     "reference_email", "resume_path", "cover_letter_path", "status"}

\* defaultValue
SyncDefault(c) ==
    CASE c \in {"full_name", "email", "mobile", "parent_name", "gender", "nationality",
                "current_address", "permanent_address", "state", "city", "zipcode",
                "emergency_contact", "ssc_board", "ssc_percentage", "job_role",
                "preferred_location", "notice_period", "skills", "experience_status",
                "resume_path"} -> Empty
      [] c = "dob" -> Str(<<"1", "9", "7", "0", "-", "0", "1", "-", "0", "1">>)
      [] c = "ssc_year" -> Num(0)
      [] c = "submission_date" -> Str(<<"C", "U", "R", "R", "E", "N", "T", "_", "T", "I", "M", "E", "S", "T", "A", "M", "P">>)
      [] c = "status" -> Str(Pending)
      [] OTHER -> Null

\* ADD COLUMN with its DEFAULT clause cannot succeed: outside the textual
\* types the default is written unquoted, and DEFAULT 1970-01-01 is an
\* integer expression, which a DATE column does not take
AddFails(c) == c \notin SyncTextual /\ Truthy(SyncDefault(c)) /\ IsDate(SyncDefault(c))

\* col.defaultValue !== null && col.type !== 'SERIAL PRIMARY KEY'
Backfills(c) == SyncDefault(c) # Null /\ c # "id"

\* the UPDATE with the default as its parameter cannot succeed: the text
\* CURRENT_TIMESTAMP is no TIMESTAMP literal
UpdateFails(c) == c = "submission_date"

(* ------------------------------------------------------------------ *)
(* State                                                               *)
(* ------------------------------------------------------------------ *)
VARIABLES
    rows,       \* the applications table: id -> row (column -> value)
    nextId,     \* the next value of the id sequence
    files,      \* the names of the files in the upload directory
    clock,      \* the clock readings so far (Date.now(), new Date())
    inserting,  \* submits awaiting their INSERT: the values of each
    deleting,   \* deletes between their SELECT and their DELETE: [id, row paths]
    truncating, \* clears awaiting their TRUNCATE
    listing,    \* clears awaiting their readdir callback
    unlinking,  \* file names whose fs.unlink a readdir callback has issued
    req,        \* the request answered last
    res,        \* the response to it
    inputs,     \* the submit requests the clients of this run send
    schema,     \* the applications table's columns: [columns, notNull]
    sync        \* syncApplicationsTable: [pc, missing, i]

vars ==
    <<rows, nextId, files, clock, inserting, deleting, truncating, listing, unlinking,
      req, res, inputs, schema, sync>>

\* the clock readings and the requests in flight a run is followed for
MaxClock == 2

MaxInflight == 2

\* what is under way: the queries of the requests not yet answered, the
\* readdir callbacks to come, and the batch of unlinks if any are pending
InFlight ==
    Len(inserting) + Len(deleting) + truncating + listing
    + (IF unlinking = {} THEN 0 ELSE 1)

NoRows == [i \in {} |-> 0]

Request(op, id, status, submit) == [op |-> op, id |-> id, status |-> status, submit |-> submit]

\* the server before its first request
InitServer(e) ==
    /\ rows = NoRows
    /\ nextId = 1
    /\ files = {}
    /\ clock = 0
    /\ inserting = <<>>
    /\ deleting = <<>>
    /\ truncating = 0
    /\ listing = 0
    /\ unlinking = {}
    /\ req = Request("none", 0, Undef, <<>>)
    /\ res = NoResponse
    /\ inputs = e

\* ... on the table createApplicationsTable creates: no column is missing
InitWith(e) ==
    /\ InitServer(e)
    /\ schema = [columns |-> SeqSet(expectedColumns),
                 notNull |-> SyncNotNull \cup {"id"}]
    /\ sync = [pc |-> "done", missing |-> <<>>, i |-> 1]

Init == InitWith(ServerInputs)

\* no response is on its way to a client
Delivered == res = NoResponse

Remove(s, k) == SubSeq(s, 1, k - 1) \o SubSeq(s, k + 1, Len(s))

\* the ids of the requests: every id a row can have; each is absent in some states
Ids == 1..MaxClock

(* ------------------------------------------------------------------ *)
(* POST /api/submit                                                    *)
(* ------------------------------------------------------------------ *)
\* multer stores the files of the request, then the handler runs to its
\* first await: it answers, or issues the INSERT
SubmitRequest(r) ==
    LET now == clock + 1
        h == SubmitHandler(r, now)
        reads == r.resume \/ r.cover \/ h.insert
        stored == {FileName("resume", now) : x \in {1} \cap (IF r.resume THEN {1} ELSE {})}
                  \cup {FileName("cover_letter", now) :
                          x \in {1} \cap (IF r.cover THEN {1} ELSE {})}
    IN  /\ Delivered
        /\ r \in inputs
        /\ reads => clock < MaxClock
        /\ h.insert => InFlight < MaxInflight
        /\ clock' = IF reads THEN now ELSE clock
        /\ files' = files \cup stored
        /\ IF h.insert
           THEN /\ inserting' = Append(inserting, [request |-> r, values |-> h.values])
                /\ UNCHANGED <<req, res>>
           ELSE /\ req' = Request("submit", 0, Undef, <<r>>)
                /\ res' = h.res
                /\ UNCHANGED inserting
        /\ UNCHANGED <<rows, nextId, deleting, truncating, listing, unlinking, inputs, schema, sync>>

\* the row the table holds for the values of an INSERT
StoredRow(values) == [c \in Columns |-> PgStored(c, values[c])]

\* INSERT INTO applications (...) VALUES (...) RETURNING id on `table` with the
\* sequence at `id`: [error, table, nextId, id].  The sequence value is taken
\* before the constraints are checked, and is not given back.
Insert(values, table, id) ==
    IF BindError(values) # ""
    THEN [error |-> BindError(values), table |-> table, nextId |-> id, id |-> 0]
    ELSE IF ConstraintError(values, table) # ""
    THEN [error |-> ConstraintError(values, table), table |-> table, nextId |-> id + 1,
          id |-> 0]
    ELSE [error |-> "", table |-> table @@ (id :> StoredRow(values)), nextId |-> id + 1,
          id |-> id]

\* the INSERT runs and the handler answers: the id, or the catch block's 500
SubmitInsert(k) ==
    LET q == Insert(inserting[k].values, rows, nextId) IN
    /\ Delivered
    /\ k \in 1..Len(inserting)
    /\ rows' = q.table
    /\ nextId' = q.nextId
    /\ inserting' = Remove(inserting, k)
    /\ req' = Request("submit", 0, Undef, <<inserting[k].request>>)
    /\ res' = IF q.error = "" THEN IdResponse(q.id) ELSE ErrorResponse(500, q.error)
    /\ UNCHANGED <<files, clock, deleting, truncating, listing, unlinking, inputs, schema, sync>>

(* ------------------------------------------------------------------ *)
(* PUT /api/applications/:id/status                                    *)
(* ------------------------------------------------------------------ *)
\* SetStatus without the WHERE clause
SetStatusEvery(table, id, status) ==
    [i \in DOMAIN table |-> [table[i] EXCEPT !["status"] = status]]

\* UPDATE applications SET status = $1 WHERE id = $2
SetStatus(table, id, status) ==
    [i \in DOMAIN table |->
        IF i = id THEN [table[i] EXCEPT !["status"] = status] ELSE table[i]]

UpdateStatus(id, status) ==
    /\ Delivered
    /\ id \in Ids
    /\ status \in StatusInputs
    /\ req' = Request("updateStatus", id, status, <<>>)
    /\ IF status \notin AllowedStatuses
       THEN /\ res' = ErrorResponse(400, "Invalid status")
            /\ UNCHANGED rows
       ELSE IF id \in DOMAIN rows
       THEN /\ rows' = SetStatus(rows, id, status)
            /\ res' = IdResponse(id)
       ELSE /\ res' = ErrorResponse(404, "Application not found")
            /\ UNCHANGED rows
    /\ UNCHANGED <<nextId, files, clock, inserting, deleting, truncating, listing,
                   unlinking, inputs, schema, sync>>

(* ------------------------------------------------------------------ *)
(* GET /api/applications/:id                                           *)
(* ------------------------------------------------------------------ *)
\* the row as the handler returns it: additional_education decoded to a
\* sequence, the empty one if it is absent, does not parse or is no array
Application(id, row) ==
    LET x == row["additional_education"]
        d == IF x.t = "text" THEN JsonParse(x.v) ELSE [ok |-> TRUE, val |-> x]
    IN  [id |-> id,
         row |-> [row EXCEPT !["additional_education"] =
                     IF Truthy(x) /\ d.ok /\ d.val.t = "array" THEN d.val ELSE Arr(<<>>)]]

GetById(id) ==
    /\ Delivered
    /\ id \in Ids
    /\ req' = Request("getById", id, Undef, <<>>)
    /\ res' = IF id \in DOMAIN rows
              THEN OkResponse(<<Application(id, rows[id])>>)
              ELSE ErrorResponse(404, "Application not found")
    /\ UNCHANGED <<rows, nextId, files, clock, inserting, deleting, truncating, listing,
                   unlinking, inputs, schema, sync>>

(* ------------------------------------------------------------------ *)
(* GET /api/applications                                               *)
(* ------------------------------------------------------------------ *)
\* the columns of the SELECT
SummaryColumns ==
    {"full_name", "email", "job_role", "submission_date", "resume_path",
     "cover_letter_path", "status"}

Summary(id, row) == [id |-> id, row |-> [c \in SummaryColumns |-> row[c]]]

RECURSIVE OrderBySubmissionDate(_)
\* the rows ORDER BY submission_date DESC (no two rows have the same date:
\* every INSERT is given a clock reading of its own)
OrderBySubmissionDate(table) ==
    IF DOMAIN table = {} THEN <<>>
    ELSE LET latest == CHOOSE i \in DOMAIN table :
                          \A j \in DOMAIN table :
                             table[j]["submission_date"].v <= table[i]["submission_date"].v
         IN  <<Summary(latest, table[latest])>>
             \o OrderBySubmissionDate([j \in DOMAIN table \ {latest} |-> table[j]])

ListSummaries ==
    /\ Delivered
    /\ req' = Request("list", 0, Undef, <<>>)
    /\ res' = ListResponse(OrderBySubmissionDate(rows))
    /\ UNCHANGED <<rows, nextId, files, clock, inserting, deleting, truncating, listing,
                   unlinking, inputs, schema, sync>>

(* ------------------------------------------------------------------ *)
(* DELETE /api/applications/:id                                        *)
(* ------------------------------------------------------------------ *)
\* SELECT resume_path, cover_letter_path: 404 if no row, else on to the DELETE
DeleteSelect(id) ==
    /\ Delivered
    /\ id \in Ids
    /\ IF id \in DOMAIN rows
       THEN /\ InFlight < MaxInflight
            /\ deleting' = Append(deleting,
                                  [id |-> id, resume_path |-> rows[id]["resume_path"],
                                   cover_letter_path |-> rows[id]["cover_letter_path"]])
            /\ UNCHANGED <<req, res>>
       ELSE /\ req' = Request("delete", id, Undef, <<>>)
            /\ res' = ErrorResponse(404, "Application not found")
            /\ UNCHANGED deleting
    /\ UNCHANGED <<rows, nextId, files, clock, inserting, truncating, listing,
                   unlinking, inputs, schema, sync>>

\* path && fs.existsSync(path)
Exists(path, dir) == Truthy(path) /\ path.v \in dir

\* DELETE ... RETURNING id, then the two unlinkSync, then the answer from
\* deleteResult.rows[0].id.  fault names the unlinkSync that throws, if one does.
DeleteExec(k, fault) ==
    /\ Delivered
    /\ k \in 1..Len(deleting)
    /\ fault \in {"none", "resume", "cover_letter"}
    /\ LET d == deleting[k]
           deleted == d.id \in DOMAIN rows
           afterResume == IF Exists(d.resume_path, files) /\ fault # "resume"
                          THEN files \ {d.resume_path.v} ELSE files
           afterCover == IF Exists(d.cover_letter_path, afterResume)
                            /\ fault # "cover_letter"
                         THEN afterResume \ {d.cover_letter_path.v} ELSE afterResume
       IN  /\ fault = "resume" => Exists(d.resume_path, files)
           /\ fault = "cover_letter" => Exists(d.cover_letter_path, files)
           /\ rows' = [i \in DOMAIN rows \ {d.id} |-> rows[i]]
           /\ files' = IF fault = "resume" THEN files ELSE afterCover
           /\ req' = Request("delete", d.id, Undef, <<>>)
           /\ res' = IF fault # "none" THEN ErrorResponse(500, "unlink failed")
                     ELSE IF ~deleted
                     THEN ErrorResponse(500, "Cannot read properties of undefined")
                     ELSE IdResponse(d.id)
    /\ deleting' = Remove(deleting, k)
    /\ UNCHANGED <<nextId, clock, inserting, truncating, listing, unlinking, inputs, schema, sync>>

(* ------------------------------------------------------------------ *)
(* DELETE /api/clear                                                   *)
(* ------------------------------------------------------------------ *)
\* the handler issues fs.readdir and the TRUNCATE; both complete later
ClearRequest ==
    /\ Delivered
    /\ InFlight + 2 <= MaxInflight
    /\ listing' = listing + 1
    /\ truncating' = truncating + 1
    /\ UNCHANGED <<rows, nextId, files, clock, inserting, deleting, unlinking, req, res,
                   inputs, schema, sync>>

\* the readdir callback: on an error it logs and returns, else it issues an
\* fs.unlink for every file listed
ClearReaddir(err) ==
    /\ Delivered
    /\ listing > 0
    /\ err \in BOOLEAN
    /\ listing' = listing - 1
    /\ unlinking' = IF err THEN unlinking ELSE unlinking \cup files
    /\ UNCHANGED <<rows, nextId, files, clock, inserting, deleting, truncating, req, res,
                   inputs, schema, sync>>

\* one fs.unlink completes; its error, if any, is logged
ClearUnlink(f, err) ==
    /\ Delivered
    /\ f \in unlinking
    /\ err \in BOOLEAN
    /\ unlinking' = unlinking \ {f}
    /\ files' = IF err THEN files ELSE files \ {f}
    /\ UNCHANGED <<rows, nextId, clock, inserting, deleting, truncating, listing, req, res,
                   inputs, schema, sync>>

\* ClearTruncate without RESTART IDENTITY
ClearTruncateKeepsIdentity ==
    /\ Delivered
    /\ truncating > 0
    /\ truncating' = truncating - 1
    /\ rows' = NoRows
    /\ req' = Request("clear", 0, Undef, <<>>)
    /\ res' = OkResponse(<<>>)
    /\ UNCHANGED <<nextId, files, clock, inserting, deleting, listing, unlinking, inputs, schema,
                   sync>>

\* TRUNCATE TABLE applications RESTART IDENTITY completes and the handler answers
ClearTruncate ==
    /\ Delivered
    /\ truncating > 0
    /\ truncating' = truncating - 1
    /\ rows' = NoRows
    /\ nextId' = 1
    /\ req' = Request("clear", 0, Undef, <<>>)
    /\ res' = OkResponse(<<>>)
    /\ UNCHANGED <<files, clock, inserting, deleting, listing, unlinking, inputs, schema, sync>>

\* The client receives the response.  The server's steps are followed from
\* the states in which the last response has been received; a response changes
\* nothing in the server.
Deliver ==
    /\ ~Delivered
    /\ req' = Request("none", 0, Undef, <<>>)
    /\ res' = NoResponse
    /\ UNCHANGED <<rows, nextId, files, clock, inserting, deleting, truncating, listing,
                   unlinking, inputs, schema, sync>>

Next ==
    \/ \E r \in inputs : SubmitRequest(r)
    \/ \E k \in 1..Len(inserting) : SubmitInsert(k)
    \/ \E id \in Ids, status \in StatusInputs : UpdateStatus(id, status)
    \/ \E id \in Ids : GetById(id)
    \/ ListSummaries
    \/ \E id \in Ids : DeleteSelect(id)
    \/ \E k \in 1..Len(deleting), fault \in {"none", "resume", "cover_letter"} :
          DeleteExec(k, fault)
    \/ ClearRequest
    \/ \E err \in BOOLEAN : ClearReaddir(err)
    \/ \E f \in unlinking, err \in BOOLEAN : ClearUnlink(f, err)
    \/ ClearTruncate
    \/ Deliver

Spec == Init /\ [][Next]_vars

\* The submit endpoint alone, on each request of the validator inputs
InitSubmit == \E r \in ValidatorInputs : InitWith({r})

NextSubmit ==
    \/ \E r \in inputs : SubmitRequest(r)
    \/ \E k \in 1..Len(inserting) : SubmitInsert(k)
    \/ Deliver

SubmitSpec == InitSubmit /\ [][NextSubmit]_vars

(* ------------------------------------------------------------------ *)
(* syncApplicationsTable, on a table an earlier version created        *)
(* ------------------------------------------------------------------ *)
server == <<rows, nextId, files, clock, inserting, deleting, truncating, listing,
            unlinking, req, res, inputs>>

\* the catch block: the error is logged and the function returns
Caught == [sync EXCEPT !.pc = "caught"]

\* the loop goes on to the next missing column, or ends
NextColumn ==
    IF sync.i < Len(sync.missing)
    THEN [sync EXCEPT !.pc = "add", !.i = sync.i + 1]
    ELSE [sync EXCEPT !.pc = "done", !.i = sync.i + 1]

\* after the ADD COLUMN of c: the UPDATE, the SET NOT NULL, or the next column
AfterAdd(c) ==
    IF Backfills(c) THEN [sync EXCEPT !.pc = "update"]
    ELSE IF c \in SyncNotNull THEN [sync EXCEPT !.pc = "notnull"]
    ELSE NextColumn

AfterUpdate(c) == IF c \in SyncNotNull THEN [sync EXCEPT !.pc = "notnull"] ELSE NextColumn

\* the SELECT on information_schema.columns and the filter of the missing
\* columns; err: the query fails
SyncSelect(err) ==
    /\ sync.pc = "select"
    /\ err \in BOOLEAN
    /\ sync' = IF err THEN Caught
               ELSE LET missingColumns ==
                          SelectSeq(expectedColumns, LAMBDA c : c \notin schema.columns)
                    IN  [pc |-> IF missingColumns = <<>> THEN "done" ELSE "add",
                         missing |-> missingColumns, i |-> 1]
    /\ UNCHANGED <<server, schema>>

\* ALTER TABLE applications ADD COLUMN of the column the loop is at
SyncAdd(err) ==
    /\ sync.pc = "add"
    /\ err \in BOOLEAN
    /\ LET c == sync.missing[sync.i] IN
       IF err \/ AddFails(c)
       THEN sync' = Caught /\ UNCHANGED schema
       ELSE /\ schema' = [schema EXCEPT !.columns = @ \cup {c},
                                        !.notNull = IF c = "id" THEN @ \cup {c} ELSE @]
            /\ sync' = AfterAdd(c)
    /\ UNCHANGED server

\* UPDATE applications SET col = $1 WHERE col IS NULL
SyncUpdate(err) ==
    /\ sync.pc = "update"
    /\ err \in BOOLEAN
    /\ LET c == sync.missing[sync.i] IN
       sync' = IF err \/ UpdateFails(c) THEN Caught ELSE AfterUpdate(c)
    /\ UNCHANGED <<server, schema>>

\* ALTER TABLE applications ALTER COLUMN col SET NOT NULL
SyncSetNotNull(err) ==
    /\ sync.pc = "notnull"
    /\ err \in BOOLEAN
    /\ LET c == sync.missing[sync.i] IN
       IF err
       THEN sync' = Caught /\ UNCHANGED schema
       ELSE /\ schema' = [schema EXCEPT !.notNull = @ \cup {c}]
            /\ sync' = NextColumn
    /\ UNCHANGED server

\* the columns a table of an earlier version may lack
LegacyMissing ==
    {"dob", "ssc_year", "additional_education", "linkedin", "submission_date", "status"}

\* start-up on a table that lacks some of them
InitSync ==
    \E lacking \in SUBSET LegacyMissing :
       /\ InitServer(ServerInputs)
       /\ schema = [columns |-> SeqSet(expectedColumns) \ lacking,
                    notNull |-> (SyncNotNull \cup {"id"}) \ lacking]
       /\ sync = [pc |-> "select", missing |-> <<>>, i |-> 1]

NextSync ==
    \/ \E err \in BOOLEAN : SyncSelect(err)
    \/ \E err \in BOOLEAN : SyncAdd(err)
    \/ \E err \in BOOLEAN : SyncUpdate(err)
    \/ \E err \in BOOLEAN : SyncSetNotNull(err)

SyncSpec == InitSync /\ [][NextSync]_vars

(* ------------------------------------------------------------------ *)
(* Properties                                                          *)
(* ------------------------------------------------------------------ *)
\* the step answers a submit whose INSERT ran
InsertRan == Len(inserting') < Len(inserting)

\* the submit request the last response answers
Submitted == req.submit[1]

UniqueEmails ==
    \A i \in DOMAIN rows, j \in DOMAIN rows : i # j => rows[i]["email"] # rows[j]["email"]

\* C1: no two stored applications ever have the same email; the INSERT of a
\* submit whose email a stored application already has fails with the
\* duplicate-key error and leaves the table, the earlier application
\* included, as it was.
C1_UniqueEmail ==
    /\ UniqueEmails
    /\ [][/\ UniqueEmails'
          /\ (InsertRan /\ \E i \in DOMAIN rows :
                              rows[i]["email"] = req'.submit[1].body["email"])
             => /\ res' = ErrorResponse(500, "duplicate key value violates unique constraint")
                /\ rows' = rows]_vars

\* C1 witness: a duplicate submit was refused while the earlier application,
\* which differs from the submitted one, is stored
C1_Witness ==
    /\ req.op = "submit"
    /\ res.error = "duplicate key value violates unique constraint"
    /\ \E i \in DOMAIN rows :
          /\ rows[i]["email"] = Submitted.body["email"]
          /\ rows[i]["experience_status"] # Submitted.body["experience_status"]

\* the step answers a submit: with a rejection, or after its INSERT ran
SubmitAnswered == req.op = "none" /\ req'.op = "submit"

\* absent or empty
Blank(x) == x \in {Undef, Null, Empty}

\* a value a form field carries: a string that is not empty
Given(x) == x.t = "string" /\ x.v # <<>>

Filled(m, fields) == {i \in 1..Len(fields) : ~Blank(m[fields[i]])}

\* some but not all fields of the group are filled
Partial(m, fields) == Cardinality(Filled(m, fields)) \notin {0, Len(fields)}

Whole(x) == ParseInt(x).t = "number"

\* the entries of the additional_education value sent, <<>> if it is blank;
\* ok = FALSE if it is no sequence and no text of one
SentEducation(x) ==
    IF Blank(x) THEN [ok |-> TRUE, val |-> <<>>]
    ELSE IF x.t = "array" THEN [ok |-> TRUE, val |-> x.v]
    ELSE IF x.t = "text" /\ JsonParse(x.v).ok /\ JsonParse(x.v).val.t = "array"
    THEN [ok |-> TRUE, val |-> JsonParse(x.v).val.v]
    ELSE [ok |-> FALSE, val |-> <<>>]

\* the entry lacks a non-empty sub-field
Lacks(e) == e.t # "object" \/ \E i \in 1..Len(EducationKeys) : Blank(Prop(e, EducationKeys[i]))

\* the entry has the four sub-fields: strings that are not empty, or numbers
Complete(e) ==
    /\ e.t = "object"
    /\ \A i \in 1..Len(EducationKeys) :
          LET x == Prop(e, EducationKeys[i]) IN Given(x) \/ (x.t = "number" /\ x.v # 0)

\* the parts of a valid submit
RequiredGiven(body) == \A f \in RequiredSet : Given(body[f])

ScalarsValid(body) ==
    /\ Whole(body["ssc_year"])
    /\ \A f \in IntegerColumns \ {"ssc_year"} : Blank(body[f]) \/ (Given(body[f]) /\ Whole(body[f]))
    /\ IsDate(body["dob"])
    /\ \A f \in BodyFields \ {"additional_education"} :
          Blank(body[f]) \/ (Given(body[f]) /\ (VarcharLen(f) > 0 => Len(body[f].v) <= VarcharLen(f)))

GroupsWhole(body) ==
    ~Partial(body, IntermediateFields) /\ ~Partial(body, GraduationFields)

ExperienceWhole(body) ==
    body["experience_status"] = Str(Experienced) => Filled(body, ExperienceFields) = 1..6

EducationWhole(body) ==
    LET sent == SentEducation(body["additional_education"])
    IN  sent.ok /\ \A i \in 1..Len(sent.val) : Complete(sent.val[i])

FilesGiven(r) == r.multipart /\ r.resume

\* no stored application has the email of the request
Fresh(r) == \A i \in DOMAIN rows : rows[i]["email"] # r.body["email"]

\* the step rejects the request and stores nothing
Rejects == res'.code \in {400, 500} /\ rows' = rows

\* the step answers the id of a row it added for the request
Accepts ==
    /\ res'.code = 200
    /\ res'.id \notin DOMAIN rows
    /\ DOMAIN rows' = DOMAIN rows \cup {res'.id}
    /\ rows'[res'.id]["email"] = req'.submit[1].body["email"]

\* C2: a submit without a resume file, its fields being valid, is answered
\* 400 'Resume is required' without a missing list and stores no row; every
\* stored application has a resume reference.
C2_ResumeRequired ==
    [][/\ \A i \in DOMAIN rows' : rows'[i]["resume_path"] # Null
       /\ LET r == req'.submit[1] IN
          (/\ SubmitAnswered /\ ~r.resume
           /\ RequiredGiven(r.body) /\ ScalarsValid(r.body) /\ GroupsWhole(r.body)
           /\ ExperienceWhole(r.body) /\ EducationWhole(r.body))
          => /\ res' = ErrorResponse(400, "Resume is required")
             /\ rows' = rows]_vars

\* C3: a submit with an education group partly filled is rejected and stores
\* no row; a submit valid in the rest with both groups full or empty is
\* accepted; in every stored application each group is whole or blank.
C3_EducationGroups ==
    [][/\ \A i \in DOMAIN rows' :
             ~Partial(rows'[i], IntermediateFields) /\ ~Partial(rows'[i], GraduationFields)
       /\ LET r == req'.submit[1] IN
          /\ (SubmitAnswered /\ ~GroupsWhole(r.body)) => Rejects
          /\ (/\ SubmitAnswered /\ GroupsWhole(r.body)
              /\ RequiredGiven(r.body) /\ ScalarsValid(r.body) /\ ExperienceWhole(r.body)
              /\ EducationWhole(r.body) /\ FilesGiven(r) /\ Fresh(r))
             => Accepts]_vars

\* C3 witness: a submit with intermediate_board alone was answered 400
C3_Witness ==
    /\ req.op = "submit"
    /\ Filled(Submitted.body, IntermediateFields) = {1}
    /\ res = ErrorResponse(400, "Incomplete optional section data")
    /\ rows = NoRows

\* C4: an Experienced submit with one of the six experience fields absent or
\* empty is rejected and stores no row; with all six set and the rest valid
\* it is accepted; every stored Experienced application has all six.
C4_ExperienceDetails ==
    [][/\ \A i \in DOMAIN rows' : ExperienceWhole(rows'[i])
       /\ LET r == req'.submit[1] IN
          /\ (SubmitAnswered /\ ~ExperienceWhole(r.body)) => Rejects
          /\ (/\ SubmitAnswered /\ r.body["experience_status"] = Str(Experienced)
              /\ ExperienceWhole(r.body)
              /\ RequiredGiven(r.body) /\ ScalarsValid(r.body) /\ GroupsWhole(r.body)
              /\ EducationWhole(r.body) /\ FilesGiven(r) /\ Fresh(r))
             => Accepts]_vars

\* C4 witness: an Experienced submit with years_experience set and
\* company_name empty was rejected
C4_Witness ==
    /\ req.op = "submit"
    /\ Submitted.body["experience_status"] = Str(Experienced)
    /\ Given(Submitted.body["years_experience"])
    /\ Submitted.body["company_name"] = Empty
    /\ res = ErrorResponse(400, "Incomplete optional section data")
    /\ rows = NoRows

\* C5: a submit with an additional_education entry that lacks a non-empty
\* sub-field is rejected and stores no row; the additional_education of every
\* stored application is a sequence of entries with the four sub-fields.
C5_AdditionalEducation ==
    [][/\ \A i \in DOMAIN rows' :
             LET x == rows'[i]["additional_education"] IN
             x.t = "array" /\ \A k \in 1..Len(x.v) : ~Lacks(x.v[k])
       /\ LET sent == SentEducation(req'.submit[1].body["additional_education"]) IN
          (SubmitAnswered /\ sent.ok /\ \E k \in 1..Len(sent.val) : Lacks(sent.val[k]))
          => Rejects]_vars

\* C5 witness: a submit whose second entry has an empty percentage was
\* answered 400
C5_Witness ==
    /\ req.op = "submit"
    /\ LET sent == SentEducation(Submitted.body["additional_education"]) IN
       /\ Len(sent.val) = 2
       /\ ~Lacks(sent.val[1])
       /\ Prop(sent.val[2], "percentage") = Empty
    /\ res = ErrorResponse(400, "Incomplete additional education data")
    /\ rows = NoRows

\* C6: a row is added with status "Pending" whatever status the request
\* carries; every stored status is one of the four values; the status of a
\* stored application changes only in the step of an updateStatus on its id
\* that answers 200.
C6_Status ==
    [][/\ \A i \in DOMAIN rows' \ DOMAIN rows : rows'[i]["status"] = Str(Pending)
       /\ \A i \in DOMAIN rows' : rows'[i]["status"] \in AllowedStatuses
       /\ \A i \in DOMAIN rows' \cap DOMAIN rows :
             rows'[i]["status"] # rows[i]["status"]
             => /\ req.op = "none" /\ req'.op = "updateStatus" /\ req'.id = i
                /\ res' = IdResponse(i)]_vars

\* C6 witness: the application whose request carried status "Approved" is
\* stored as "Pending" beside one an updateStatus has just moved
C6_Witness ==
    /\ req.op = "updateStatus"
    /\ res.code = 200
    /\ req.id \in DOMAIN rows
    /\ rows[req.id]["status"] = Str(UnderReview)
    /\ \E i \in DOMAIN rows : rows[i]["email"] = Email2 /\ rows[i]["status"] = Str(Pending)

\* C7: updateStatus(id, s) with s outside the four values answers 400 and
\* changes no row; with s allowed and id stored it answers 200 with the id,
\* the row's status is s, its other columns and the other rows are as before;
\* with s allowed and id not stored it answers 404 and changes no row.  A
\* getById of a stored id shows the status the row has.
C7_UpdateStatus ==
    [][/\ (req.op = "none" /\ req'.op = "updateStatus")
          => LET id == req'.id
                 s == req'.status
             IN  /\ s \notin AllowedStatuses
                    => res'.code = 400 /\ rows' = rows
                 /\ (s \in AllowedStatuses /\ id \in DOMAIN rows)
                    => /\ res' = IdResponse(id)
                       /\ DOMAIN rows' = DOMAIN rows
                       /\ rows'[id]["status"] = s
                       /\ \A c \in Columns \ {"status"} : rows'[id][c] = rows[id][c]
                       /\ \A i \in DOMAIN rows \ {id} : rows'[i] = rows[i]
                 /\ (s \in AllowedStatuses /\ id \notin DOMAIN rows)
                    => res'.code = 404 /\ rows' = rows
       /\ (req.op = "none" /\ req'.op = "getById" /\ req'.id \in DOMAIN rows)
          => /\ res'.code = 200
             /\ res'.application[1].id = req'.id
             /\ res'.application[1].row["status"] = rows[req'.id]["status"]]_vars

\* C7 witness: an updateStatus to "Approved" was answered 200 while another
\* application is stored
C7_Witness ==
    /\ req.op = "updateStatus"
    /\ req.status = Str(Approved)
    /\ res = IdResponse(req.id)
    /\ req.id \in DOMAIN rows
    /\ rows[req.id]["status"] = Str(Approved)
    /\ \E i \in DOMAIN rows : i # req.id /\ rows[i]["status"] = Str(Pending)

\* the required fields of the body that are not sent
Absent(body) == {f \in RequiredSet : body[f] = Undef}

\* ... and those that are not sent or are sent as null or as the number 0
AbsentOrNull(body) == {f \in RequiredSet : body[f] \in {Undef, Null, Num(0)}}

\* the answer is the 400 whose list names each field of S once
ListsMissing(S) ==
    /\ res'.code = 400
    /\ res'.hasMissing
    /\ SeqSet(res'.missing) = S
    /\ Len(res'.missing) = Cardinality(S)
    /\ rows' = rows

\* C8 as stated: a submit with a required field absent is answered 400 with
\* a list of exactly the absent required fields, and stores no row.
C8_MissingAbsent ==
    [][(SubmitAnswered /\ Absent(req'.submit[1].body) # {})
       => ListsMissing(Absent(req'.submit[1].body))]_vars

\* C8: a submit with a required field absent, null or 0 is answered 400 with
\* a list of exactly the required fields that are absent, null or 0, each
\* once; a field sent as the empty string is not listed; no row is stored.
C8_MissingList ==
    [][(SubmitAnswered /\ AbsentOrNull(req'.submit[1].body) # {})
       => /\ ListsMissing(AbsentOrNull(req'.submit[1].body))
          /\ \A i \in 1..Len(res'.missing) : req'.submit[1].body[res'.missing[i]] # Empty]_vars

\* C8 witness: two required fields were absent and one was empty, and the
\* list names the two
C8_Witness ==
    /\ req.op = "submit"
    /\ Cardinality(Absent(Submitted.body)) = 2
    /\ \E f \in RequiredSet : Submitted.body[f] = Empty
    /\ res.hasMissing
    /\ Len(res.missing) = 2

\* C9 as stated: no required field of a stored application is null or the
\* empty string.
C9_RequiredNotEmpty ==
    \A i \in DOMAIN rows : \A f \in RequiredSet : ~Blank(rows[i][f])

\* the required fields sent as strings, ssc_year and dob not empty
RequiredSent(body) ==
    \A f \in RequiredSet : body[f].t = "string" /\ (f \in {"ssc_year", "dob"} => body[f] # Empty)

\* C9: no required field of a stored application is null, ssc_year is stored
\* as an integer and dob as a date; a submit valid but for empty strings in
\* required fields other than ssc_year and dob is accepted, and the row holds
\* them as sent.
C9_RequiredNotNull ==
    [][/\ \A i \in DOMAIN rows' :
             /\ \A f \in RequiredSet : rows'[i][f] \notin {Undef, Null}
             /\ rows'[i]["ssc_year"].t = "number"
             /\ IsDate(rows'[i]["dob"])
       /\ LET r == req'.submit[1] IN
          (/\ SubmitAnswered /\ RequiredSent(r.body) /\ ScalarsValid(r.body)
           /\ GroupsWhole(r.body) /\ ExperienceWhole(r.body) /\ EducationWhole(r.body)
           /\ FilesGiven(r) /\ Fresh(r))
          => /\ Accepts
             /\ \A f \in RequiredSet \ {"ssc_year"} : rows'[res'.id][f] = r.body[f]]_vars

\* C9 witness: an application is stored with an empty full_name
C9_Witness ==
    /\ req.op = "submit"
    /\ res.code = 200
    /\ Submitted.body["full_name"] = Empty
    /\ res.id \in DOMAIN rows
    /\ rows[res.id]["full_name"] = Empty

\* the fields of the body fail the validation: a required field missing, an
\* integer field empty or not an integer, an optional group partly filled,
\* an additional_education value that is no sequence or has an entry that
\* lacks a sub-field
Invalid(body) ==
    \/ Absent(body) # {}
    \/ body["ssc_year"] = Empty \/ (Given(body["ssc_year"]) /\ ~Whole(body["ssc_year"]))
    \/ \E f \in IntegerColumns : Given(body[f]) /\ ~Whole(body[f])
    \/ ~GroupsWhole(body)
    \/ ~ExperienceWhole(body)
    \/ LET sent == SentEducation(body["additional_education"])
       IN  ~sent.ok \/ \E k \in 1..Len(sent.val) : Lacks(sent.val[k])

\* C10: a submit whose fields fail the validation is answered 400 with a
\* reason, never 500.
C10_ValidationIs400 ==
    [][(SubmitAnswered /\ Invalid(req'.submit[1].body))
       => res'.code = 400 /\ res'.error # ""]_vars

\* the step answers a delete request
DeleteAnswered == req.op = "none" /\ req'.op = "delete"

\* C11: a delete whose DELETE finds the row answers 200 with the id and the
\* row is gone, whatever happens to the files; a delete of an id that is not
\* stored answers 404 and removes no file.
C11_DeleteSucceeds ==
    [][DeleteAnswered
       => /\ (req'.id \in DOMAIN rows /\ deleting' # deleting)
             => res' = IdResponse(req'.id) /\ req'.id \notin DOMAIN rows'
          /\ (req'.id \notin DOMAIN rows /\ deleting' = deleting)
             => res'.code = 404 /\ files' = files /\ rows' = rows]_vars

\* C14: every delete is answered 200 with the id or 404, unless the removal
\* of a file failed (C11).
C14_DeleteNever500 ==
    [][DeleteAnswered
       => \/ res' = IdResponse(req'.id)
          \/ res'.code = 404
          \/ res' = ErrorResponse(500, "unlink failed")]_vars

\* every clear has truncated the table and none of its readdir callbacks and
\* fs.unlink calls is pending
ClearsSettled == truncating = 0 /\ listing = 0 /\ unlinking = {}

\* C15: once every clear has answered and its file deletions have run, the
\* resume of every stored application is a file of the upload directory.
C15_ResumeExists ==
    ClearsSettled => \A i \in DOMAIN rows : rows[i]["resume_path"].v \in files

\* the files the stored applications refer to
Referenced ==
    {rows[i][c].v : i \in DOMAIN rows, c \in {"resume_path", "cover_letter_path"}}

\* C16: when no submit awaits its INSERT, every file of the upload directory
\* is the resume or the cover letter of a stored application.
C16_NoOrphanFile ==
    inserting = <<>> => files \subseteq Referenced

\* the step answers a clear: its TRUNCATE has run
ClearAnswered == req.op = "none" /\ req'.op = "clear"

\* the step answers a submit with the id of the row its INSERT added
InsertSucceeds == InsertRan /\ res'.code = 200

\* what a clear leaves, what a list shows and what an insert receives
ClearRestarts ==
    /\ ClearAnswered => rows' = NoRows /\ nextId' = 1
    /\ (req.op = "none" /\ req'.op = "list")
       => /\ Len(res'.applications) = Cardinality(DOMAIN rows)
          /\ {res'.applications[k].id : k \in 1..Len(res'.applications)} = DOMAIN rows
    /\ InsertSucceeds => res'.id = nextId /\ nextId' = nextId + 1

C13_EveryColumnAttempted ==
    sync.pc \in {"done", "caught"} => \A k \in 1..Len(sync.missing) : k <= sync.i

====
